---- MODULE Spec2Model ----
(***************************************************************************)
(* A model of src/diagrams/__init__.py: the Transform classes, the         *)
(* Primitive builder, Diagram composition and the render pipeline.         *)
(*                                                                         *)
(* Number representation.  Python floats are modelled on a grid where the  *)
(* arithmetic of the code is exact:                                        *)
(*   - an angle is a number k of quarter turns, theta = k * pi/2, so that  *)
(*     cos(theta) and sin(theta) are the integers Cos(k) and Sin(k);       *)
(*   - lengths and offsets are integers (logical units);                   *)
(*   - RGB channels are 0 or 255, so that r / 255 is 0 or 1;               *)
(*   - a stroke width is an integer number of hundredths (0.01 is 1).      *)
(* Python values that may be None or an exception are tagged records:      *)
(* [ty |-> "Matrix", ...], [ty |-> "None"], [ty |-> "Raise", exc |-> e],   *)
(* [ty |-> "tuple", items |-> <<...>>].                                    *)
(***************************************************************************)
EXTENDS Integers, Sequences, FiniteSets, TLC

\* ------------------------------------------------------------------ bounds
\* Constructor calls of Transform classes made in one run of SpecT.
MaxCtor == 5

\* Operations (constructor and method calls) made in one run of Spec.
MaxOps == 3

\* Primitives of the Diagram rendered in one run of SpecR.
MaxShapes == 2

\* ------------------------------------------------------------------ inputs
Angles == {1}                          \* quarter turns: pi/2
Shifts == {<<1, 0>>, <<0, 2>>}         \* (dx, dy) arguments of translate
Radii == {1}                           \* Circle(radius)
RectSizes == {<<2, 4>>}                \* Rectangle(height, width)
Widths == {5}                          \* set_stroke_width(width), hundredths
Points == {<<0, 0>>, <<1, 0>>, <<0, 1>>, <<2, 3>>}   \* sample local points

VARIABLES
    prims,      \* the Primitive objects, by identity (index)
    diagrams,   \* the Diagram objects, by identity: each one's shapes list
    calls,      \* history: per Primitive, the rotate/translate calls made on it
    lastOp,     \* history: the operation that ran last, with its arguments
    nops,       \* Spec: operations run so far
    tstack,     \* SpecT: the Transform values the caller holds, newest last
    called,     \* SpecT: the Transform whose __call__ ran last
    result,     \* SpecT: what that __call__ returned or raised
    nctor,      \* SpecT: Transform constructor calls made so far
    pc,         \* SpecR: the line Diagram.render / Primitive.render is at
    ri,         \* SpecR: position in self.shapes of the shape being rendered
    matrix,     \* SpecR: Primitive.render's local variable matrix
    ctx,        \* SpecR: the cairo context (the graphics state and its stack)
    log,        \* SpecR: history, the context calls made so far, in order
    surface,    \* SpecR: what was painted on the surface, in order
    written     \* SpecR: whether the surface was written to the path

tvars == <<tstack, called, result, nctor>>

hvars == <<prims, diagrams, calls, lastOp, nops>>

rvars == <<pc, ri, matrix, ctx, log, surface, written>>

vars == <<prims, diagrams, calls, lastOp, nops, tstack, called, result, nctor,
          pc, ri, matrix, ctx, log, surface, written>>

\* ------------------------------------------------------ python values
None == [ty |-> "None"]

Raise(e) == [ty |-> "Raise", exc |-> e]

Tuple(s) == [ty |-> "tuple", items |-> s]

\* ------------------------------------------------------ cairo.Matrix
Matrix(xx, yx, xy, yy, x0, y0) ==
    [ty |-> "Matrix", xx |-> xx, yx |-> yx, xy |-> xy, yy |-> yy,
     x0 |-> x0, y0 |-> y0]

\* cairo.Matrix(): the identity matrix.
MatrixNew == Matrix(1, 0, 0, 1, 0, 0)

IsMatrix(v) == v.ty = "Matrix"

\* cos and sin of k quarter turns.
Cos(k) == CASE k % 4 = 0 -> 1 [] k % 4 = 1 -> 0 [] k % 4 = 2 -> -1 [] OTHER -> 0

Sin(k) == CASE k % 4 = 0 -> 0 [] k % 4 = 1 -> 1 [] k % 4 = 2 -> 0 [] OTHER -> -1

\* cairo_matrix_multiply(a, b): the effect is to apply a first, then b.
MatrixMultiply(a, b) ==
    Matrix(a.xx * b.xx + a.yx * b.xy,
           a.xx * b.yx + a.yx * b.yy,
           a.xy * b.xx + a.yy * b.xy,
           a.xy * b.yx + a.yy * b.yy,
           a.x0 * b.xx + a.y0 * b.xy + b.x0,
           a.x0 * b.yx + a.y0 * b.yy + b.y0)

\* cairo.Matrix.init_rotate(theta).
InitRotate(k) == Matrix(Cos(k), Sin(k), -Sin(k), Cos(k), 0, 0)

\* matrix.scale(sx, sy): scales the matrix in place and returns None.
MatrixScale(m, sx, sy) ==
    [self |-> MatrixMultiply(Matrix(sx, 0, 0, sy, 0, 0), m), ret |-> None]

\* matrix.translate(tx, ty): translates the matrix in place and returns None.
MatrixTranslate(m, tx, ty) ==
    [self |-> MatrixMultiply(Matrix(1, 0, 0, 1, tx, ty), m), ret |-> None]

\* cairo_matrix_transform_point: the image of point pt under matrix m.
Apply(m, pt) ==
    <<m.xx * pt[1] + m.xy * pt[2] + m.x0, m.yx * pt[1] + m.yy * pt[2] + m.y0>>

\* ------------------------------------------------------ Transform classes
Identity == [tag |-> "Identity"]

ReflectX == [tag |-> "ReflectX"]

ReflectY == [tag |-> "ReflectY"]

Rotate(k) == [tag |-> "Rotate", theta |-> k]

Translate(dx, dy) == [tag |-> "Translate", dx |-> dx, dy |-> dy]

Compose(t, u) == [tag |-> "Compose", t |-> t, u |-> u]

\* Identity.__call__
IdentityCall == MatrixNew

\* ReflectX.__call__: matrix is rebound to what matrix.scale returns.
ReflectXCall ==
    LET matrix0 == MatrixNew
        matrix1 == MatrixScale(matrix0, -1, 1).ret
    IN  matrix1

\* ReflectY.__call__
ReflectYCall ==
    LET matrix0 == MatrixNew
        matrix1 == MatrixScale(matrix0, 1, -1).ret
    IN  matrix1

\* Rotate.__call__
RotateCall(self) == InitRotate(self.theta)

\* Translate.__call__: the matrix is translated in place and returned.
TranslateCall(self) ==
    LET matrix0 == MatrixNew
        matrix1 == MatrixTranslate(matrix0, self.dx, self.dy).self
    IN  matrix1

\* The other multiplication order, self.t().multiply(self.u()).
ComposeCallTFirst(tm, um) ==
    IF tm.ty = "Raise" THEN tm
    ELSE IF tm.ty # "Matrix" THEN Raise("AttributeError")
    ELSE IF um.ty = "Raise" THEN um
    ELSE IF um.ty # "Matrix" THEN Raise("TypeError")
    ELSE MatrixMultiply(tm, um)

\* Compose.__call__ once both operands were called: tm = self.t(), um = self.u().
\* Python evaluates self.u() first, looks up .multiply on it, then evaluates
\* self.t() and calls: an exception of u comes first, then a None receiver.
ComposeCall(tm, um) ==
    IF um.ty = "Raise" THEN um
    ELSE IF um.ty # "Matrix" THEN Raise("AttributeError")
    ELSE IF tm.ty = "Raise" THEN tm
    ELSE IF tm.ty # "Matrix" THEN Raise("TypeError")
    ELSE MatrixMultiply(um, tm)

\* t(): dynamic dispatch of Transform.__call__ on the variant.
RECURSIVE Call(_)
Call(t) ==
    CASE t.tag = "Identity"  -> IdentityCall
      [] t.tag = "ReflectX"  -> ReflectXCall
      [] t.tag = "ReflectY"  -> ReflectYCall
      [] t.tag = "Rotate"    -> RotateCall(t)
      [] t.tag = "Translate" -> TranslateCall(t)
      [] t.tag = "Compose"   -> ComposeCall(Call(t.t), Call(t.u))

\* ------------------------------------------------------ SpecT
\* The transform algebra on its own: a caller constructs Transform values
\* and calls them.
NoTransform == [tag |-> "NoTransform"]

NoOp == [name |-> "none"]

\* No render call was made.
RenderIdle ==
    /\ pc = "idle"
    /\ ri = 0
    /\ matrix = None
    /\ ctx = None
    /\ log = <<>>
    /\ surface = <<>>
    /\ written = FALSE

InitT ==
    /\ prims = <<>>
    /\ diagrams = <<>>
    /\ calls = <<>>
    /\ lastOp = NoOp
    /\ nops = 0
    /\ tstack = <<>>
    /\ called = NoTransform
    /\ result = None
    /\ nctor = 0
    /\ RenderIdle

Push(t) ==
    /\ nctor < MaxCtor
    /\ nctor' = nctor + 1
    /\ tstack' = Append(tstack, t)
    /\ UNCHANGED <<called, result>>
    /\ UNCHANGED hvars
    /\ UNCHANGED rvars

NewIdentity == Push(Identity)

NewReflectX == Push(ReflectX)

NewReflectY == Push(ReflectY)

NewRotate == \E k \in Angles : Push(Rotate(k))

NewTranslate == \E v \in Shifts : Push(Translate(v[1], v[2]))

\* Compose(t, u) of the two newest values, t the older one.
NewCompose ==
    /\ Len(tstack) >= 2
    /\ nctor < MaxCtor
    /\ nctor' = nctor + 1
    /\ LET n == Len(tstack)
       IN  tstack' = Append(SubSeq(tstack, 1, n - 2),
                            Compose(tstack[n - 1], tstack[n]))
    /\ UNCHANGED <<called, result>>
    /\ UNCHANGED hvars
    /\ UNCHANGED rvars

\* t() on the newest value.
CallTop ==
    /\ Len(tstack) >= 1
    /\ called' = tstack[Len(tstack)]
    /\ result' = Call(tstack[Len(tstack)])
    /\ tstack' = SubSeq(tstack, 1, Len(tstack) - 1)
    /\ UNCHANGED nctor
    /\ UNCHANGED hvars
    /\ UNCHANGED rvars

NextT ==
    \/ NewIdentity
    \/ NewReflectX
    \/ NewReflectY
    \/ NewRotate
    \/ NewTranslate
    \/ NewCompose
    \/ CallTop

SpecT == InitT /\ [][NextT]_vars

\* ------------------------------------------------------ claims on SpecT
\* The effect of each variant on a point, stated on points, not matrices.
RotatePoint(k, pt) ==
    <<Cos(k) * pt[1] - Sin(k) * pt[2], Sin(k) * pt[1] + Cos(k) * pt[2]>>

TranslatePoint(dx, dy, pt) == <<pt[1] + dx, pt[2] + dy>>

\* C2 (as the spec states it): the matrix resolved from Compose(first, second)
\* maps a point to second's transform of first's transform of the point.
\* Stated for operands that themselves resolve to matrices.
C2_ComposeFirstThenSecond ==
    (called.tag = "Compose" /\ IsMatrix(Call(called.t)) /\ IsMatrix(Call(called.u)))
        => /\ IsMatrix(result)
           /\ \A pt \in Points :
                Apply(result, pt) = Apply(Call(called.u), Apply(Call(called.t), pt))

\* C2 (amended): the matrix resolved from Compose(first, second) maps a point
\* to first's transform of second's transform of the point (second is applied
\* first, then first); when an operand does not resolve to a matrix, resolving
\* the Compose raises.
C2_ComposeSecondThenFirst ==
    called.tag = "Compose"
        => LET tm == Call(called.t)
               um == Call(called.u)
           IN  IF IsMatrix(tm) /\ IsMatrix(um)
               THEN /\ IsMatrix(result)
                    /\ \A pt \in Points :
                         Apply(result, pt) = Apply(tm, Apply(um, pt))
               ELSE result.ty = "Raise"

\* A Compose of a rotation and a translation was resolved to a matrix.
C2_Witness ==
    /\ called.tag = "Compose"
    /\ called.t.tag = "Rotate"
    /\ called.u.tag = "Translate"
    /\ IsMatrix(result)

\* C9: resolving any Transform returns a matrix; ReflectX resolves to the
\* matrix mapping (x,y) to (-x,y), ReflectY to the one mapping (x,y) to
\* (x,-y), as Identity resolves to the identity and Translate(dx,dy) to the
\* translation; a Compose with a reflection operand resolves to a matrix.
C9_ResolveReturnsMatrix ==
    called # NoTransform
        => /\ IsMatrix(result)
           /\ called.tag = "Identity"
                => \A pt \in Points : Apply(result, pt) = pt
           /\ called.tag = "Translate"
                => \A pt \in Points :
                     Apply(result, pt) = TranslatePoint(called.dx, called.dy, pt)
           /\ called.tag = "ReflectX"
                => \A pt \in Points : Apply(result, pt) = <<-pt[1], pt[2]>>
           /\ called.tag = "ReflectY"
                => \A pt \in Points : Apply(result, pt) = <<pt[1], -pt[2]>>

\* ------------------------------------------------------ Color
RGB(r, g, b) == [r |-> r, g |-> g, b |-> b]

FillColors == {RGB(255, 0, 0), RGB(0, 0, 0)}

StrokeColors == {RGB(0, 0, 255)}

\* RGB.to_float: each channel divided by 255.
RGBToFloat(self) == Tuple(<<self.r \div 255, self.g \div 255, self.b \div 255>>)

\* ------------------------------------------------------ Primitive
\* stroke_width 0.01, in hundredths.
DefaultStrokeWidth == 1

\* Circle.__init__ (with Primitive.__init__).
Circle(radius) ==
    [kind |-> "Circle", radius |-> radius, center |-> <<0, 0>>,
     transform |-> Identity, fill_color |-> None,
     stroke_color |-> Tuple(<<0, 0, 0>>), stroke_width |-> DefaultStrokeWidth]

\* Rectangle.__init__ (with Primitive.__init__).
Rectangle(height, width) ==
    [kind |-> "Rectangle", width |-> width, height |-> height,
     center |-> <<0, 0>>,
     transform |-> Identity, fill_color |-> None,
     stroke_color |-> Tuple(<<0, 0, 0>>), stroke_width |-> DefaultStrokeWidth]

\* A rotate that composes the new operation on the other side.
PrimitiveRotateAppend(self, theta) ==
    [self EXCEPT !.transform = Compose(@, Rotate(theta))]

\* The methods below update the receiver in place and return it: each maps
\* the object's state before the call to its state after.
PrimitiveRotate(self, theta) ==
    [self EXCEPT !.transform = Compose(Rotate(theta), @)]

PrimitiveTranslate(self, dx, dy) ==
    [self EXCEPT !.transform = Compose(Translate(dx, dy), @)]

PrimitiveSetFillColor(self, color) ==
    [self EXCEPT !.fill_color = RGBToFloat(color)]

PrimitiveSetStrokeColor(self, color) ==
    [self EXCEPT !.stroke_color = RGBToFloat(color)]

PrimitiveSetStrokeWidth(self, width) ==
    [self EXCEPT !.stroke_width = width]

\* Primitive.overlay: the shapes of the Diagram it returns.
PrimitiveOverlay(self, other) == <<self, other>>

\* ------------------------------------------------------ Diagram
\* Diagram.empty
DiagramEmpty == <<>>

\* An __add__ with its operands swapped.
DiagramAddSwapped(self, other) == other \o self

\* Diagram.__add__: the shapes of the Diagram it returns.
DiagramAdd(self, other) == self \o other

\* Diagram.concat: sum(iterable, cls.empty()), a left fold of __add__.
RECURSIVE Sum(_, _)
Sum(iterable, start) ==
    IF iterable = <<>> THEN start
    ELSE Sum(Tail(iterable), DiagramAdd(start, Head(iterable)))

DiagramConcat(iterable) == Sum(iterable, DiagramEmpty)

\* Diagram.add_primitive: the receiver's shapes after the call.
DiagramAddPrimitive(self, shape) == self \o <<shape>>

\* The functions handed to fmap, as data: each takes a shape, may update it
\* in place, and returns it.
FnId == [fn |-> "id"]

FnTranslate(dx, dy) == [fn |-> "translate", dx |-> dx, dy |-> dy]

FnRotate(theta) == [fn |-> "rotate", theta |-> theta]

\* f(shape): the shape's state after the call.
ApplyFn(f, shape) ==
    CASE f.fn = "id"        -> shape
      [] f.fn = "translate" -> PrimitiveTranslate(shape, f.dx, f.dy)
      [] f.fn = "rotate"    -> PrimitiveRotate(shape, f.theta)

\* The rotate/translate call f(shape) makes on the shape, if any.
FnCalls(f) ==
    CASE f.fn = "id"        -> <<>>
      [] f.fn = "translate" -> <<[op |-> "translate", dx |-> f.dx, dy |-> f.dy]>>
      [] f.fn = "rotate"    -> <<[op |-> "rotate", theta |-> f.theta]>>

\* Diagram.fmap: [f(shape) for shape in self.shapes] runs f on the shapes one
\* after another, in sequence order; heap is the Primitive objects.
RECURSIVE FmapHeap(_, _, _)
FmapHeap(heap, shapes, f) ==
    IF shapes = <<>> THEN heap
    ELSE FmapHeap([heap EXCEPT ![Head(shapes)] = ApplyFn(f, @)], Tail(shapes), f)

RECURSIVE FmapCalls(_, _, _)
FmapCalls(hist, shapes, f) ==
    IF shapes = <<>> THEN hist
    ELSE FmapCalls([hist EXCEPT ![Head(shapes)] = @ \o FnCalls(f)], Tail(shapes), f)

\* ------------------------------------------------------ Spec
\* A script: constructor and method calls on Primitives and Diagrams, one
\* after another.  It starts with a Circle and a Rectangle just constructed.
Init ==
    /\ prims = <<Circle(1), Rectangle(2, 4)>>
    /\ diagrams = <<>>
    /\ calls = << <<>>, <<>> >>
    /\ lastOp = NoOp
    /\ nops = 0
    /\ tstack = <<>>
    /\ called = NoTransform
    /\ result = None
    /\ nctor = 0
    /\ RenderIdle

Step ==
    /\ nops < MaxOps
    /\ nops' = nops + 1
    /\ UNCHANGED tvars
    /\ UNCHANGED rvars

PrimIds == DOMAIN prims

DiagramIds == DOMAIN diagrams

NewPrimitive(obj) ==
    /\ Step
    /\ prims' = Append(prims, obj)
    /\ calls' = Append(calls, <<>>)
    /\ lastOp' = [name |-> obj.kind, new |-> Len(prims) + 1]
    /\ UNCHANGED diagrams

NewCircle == \E r \in Radii : NewPrimitive(Circle(r))

NewRectangle == \E hw \in RectSizes : NewPrimitive(Rectangle(hw[1], hw[2]))

DoRotate ==
    \E p \in PrimIds, k \in Angles :
        /\ Step
        /\ prims' = [prims EXCEPT ![p] = PrimitiveRotate(@, k)]
        /\ calls' = [calls EXCEPT ![p] = Append(@, [op |-> "rotate", theta |-> k])]
        /\ lastOp' = [name |-> "rotate", p |-> p]
        /\ UNCHANGED diagrams

DoTranslate ==
    \E p \in PrimIds, v \in Shifts :
        /\ Step
        /\ prims' = [prims EXCEPT ![p] = PrimitiveTranslate(@, v[1], v[2])]
        /\ calls' = [calls EXCEPT ![p] =
                        Append(@, [op |-> "translate", dx |-> v[1], dy |-> v[2]])]
        /\ lastOp' = [name |-> "translate", p |-> p]
        /\ UNCHANGED diagrams

DoSetFillColor ==
    \E p \in PrimIds, c \in FillColors :
        /\ Step
        /\ prims' = [prims EXCEPT ![p] = PrimitiveSetFillColor(@, c)]
        /\ lastOp' = [name |-> "set_fill_color", p |-> p]
        /\ UNCHANGED <<diagrams, calls>>

DoSetStrokeColor ==
    \E p \in PrimIds, c \in StrokeColors :
        /\ Step
        /\ prims' = [prims EXCEPT ![p] = PrimitiveSetStrokeColor(@, c)]
        /\ lastOp' = [name |-> "set_stroke_color", p |-> p]
        /\ UNCHANGED <<diagrams, calls>>

DoSetStrokeWidth ==
    \E p \in PrimIds, w \in Widths :
        /\ Step
        /\ prims' = [prims EXCEPT ![p] = PrimitiveSetStrokeWidth(@, w)]
        /\ lastOp' = [name |-> "set_stroke_width", p |-> p]
        /\ UNCHANGED <<diagrams, calls>>

\* A new Diagram object with the given shapes.
NewDiagram(shapes, op) ==
    /\ diagrams' = Append(diagrams, shapes)
    /\ lastOp' = [op EXCEPT !.new = Len(diagrams) + 1]

DoOverlay ==
    \E p \in PrimIds, q \in PrimIds :
        /\ Step
        /\ NewDiagram(PrimitiveOverlay(p, q),
                      [name |-> "overlay", new |-> 0, p |-> p, q |-> q])
        /\ UNCHANGED <<prims, calls>>

DoEmpty ==
    /\ Step
    /\ NewDiagram(DiagramEmpty, [name |-> "empty", new |-> 0])
    /\ UNCHANGED <<prims, calls>>

DoConcat ==
    \E ds \in {<<>>} \cup {<<d>> : d \in DiagramIds}
                     \cup {<<d, e>> : d \in DiagramIds, e \in DiagramIds} :
        /\ Step
        /\ NewDiagram(DiagramConcat([i \in DOMAIN ds |-> diagrams[ds[i]]]),
                      [name |-> "concat", new |-> 0, ds |-> ds])
        /\ UNCHANGED <<prims, calls>>

DoAddPrimitive ==
    \E d \in DiagramIds, p \in PrimIds :
        /\ Step
        /\ diagrams' = [diagrams EXCEPT ![d] = DiagramAddPrimitive(@, p)]
        /\ lastOp' = [name |-> "add_primitive", d |-> d, p |-> p]
        /\ UNCHANGED <<prims, calls>>

DoAdd ==
    \E d \in DiagramIds, e \in DiagramIds :
        /\ Step
        /\ NewDiagram(DiagramAdd(diagrams[d], diagrams[e]),
                      [name |-> "__add__", new |-> 0, d |-> d, e |-> e])
        /\ UNCHANGED <<prims, calls>>

\* Diagram.fmap(f): f runs on every shape; the new Diagram holds what f
\* returned, which for these f are the same objects.
Fmap(d, f, op) ==
    /\ Step
    /\ prims' = FmapHeap(prims, diagrams[d], f)
    /\ calls' = FmapCalls(calls, diagrams[d], f)
    /\ NewDiagram(diagrams[d], op)

DoFmap ==
    \E d \in DiagramIds, f \in {FnId} \cup {FnRotate(k) : k \in Angles} :
        Fmap(d, f, [name |-> "fmap", new |-> 0, d |-> d, f |-> f])

\* Diagram.translate: fmap of lambda shape: shape.translate(dx, dy).
DoDiagramTranslate ==
    \E d \in DiagramIds, v \in Shifts :
        Fmap(d, FnTranslate(v[1], v[2]),
             [name |-> "Diagram.translate", new |-> 0, d |-> d,
              dx |-> v[1], dy |-> v[2]])

Next ==
    \/ NewCircle
    \/ NewRectangle
    \/ DoRotate
    \/ DoTranslate
    \/ DoSetFillColor
    \/ DoSetStrokeColor
    \/ DoSetStrokeWidth
    \/ DoOverlay
    \/ DoEmpty
    \/ DoConcat
    \/ DoAddPrimitive
    \/ DoAdd
    \/ DoFmap
    \/ DoDiagramTranslate

Spec == Init /\ [][Next]_vars

\* ------------------------------------------------------ claims on Spec
\* The called operations applied to a point one after another, earliest first.
RECURSIVE ApplyOps(_, _)
ApplyOps(ops, pt) ==
    IF ops = <<>> THEN pt
    ELSE LET o == Head(ops)
             q == IF o.op = "rotate" THEN RotatePoint(o.theta, pt)
                  ELSE TranslatePoint(o.dx, o.dy, pt)
         IN  ApplyOps(Tail(ops), q)

\* The matrix Primitive.render resolves from a primitive's transform.
Resolved(prim) == Call(prim.transform)

\* C1: the matrix resolved from a primitive's transform maps a local point to
\* the point obtained by applying the rotate/translate calls made on the
\* primitive one after another in the order they were called.
C1_CallOrder ==
    \A p \in PrimIds :
        /\ IsMatrix(Resolved(prims[p]))
        /\ \A pt \in Points :
             Apply(Resolved(prims[p]), pt) = ApplyOps(calls[p], pt)

\* A primitive on which rotate and then translate were called, in that order:
\* its local origin is drawn at (dx, dy).
C1_Witness ==
    \E p \in PrimIds :
        /\ Len(calls[p]) = 2
        /\ calls[p][1].op = "rotate"
        /\ calls[p][2].op = "translate"
        /\ Apply(Resolved(prims[p]), <<0, 0>>) = <<calls[p][2].dx, calls[p][2].dy>>

\* The style fields of a primitive.
Style(prim) == <<prim.fill_color, prim.stroke_color, prim.stroke_width>>

\* C4: under empty, concat, +, translate, fmap (of a function without side
\* effects) and overlay, every Diagram that existed before the operation
\* keeps its primitive sequence, and each of its primitives resolves to the
\* same transform and has the same style as before.
C4_DiagramsImmutable ==
    [][(\/ lastOp'.name \in {"empty", "concat", "__add__", "Diagram.translate",
                             "overlay"}
        \/ (lastOp'.name = "fmap" /\ lastOp'.f = FnId))
       => \A d \in DiagramIds :
            /\ diagrams'[d] = diagrams[d]
            /\ \A i \in DOMAIN diagrams[d] :
                 LET p == diagrams[d][i]
                 IN  /\ Resolved(prims'[p]) = Resolved(prims[p])
                     /\ Style(prims'[p]) = Style(prims[p])]_vars

\* C5: each primitive of D.translate(dx, dy) is drawn at the position it had
\* in D before the call, shifted by exactly (dx, dy), once.
C5_TranslateRigid ==
    [][lastOp'.name = "Diagram.translate"
       => LET old == diagrams[lastOp'.d]
              new == diagrams'[lastOp'.new]
          IN  /\ Len(new) = Len(old)
              /\ \A i \in DOMAIN old : \A pt \in Points :
                   Apply(Resolved(prims'[new[i]]), pt)
                     = TranslatePoint(lastOp'.dx, lastOp'.dy,
                                      Apply(Resolved(prims[old[i]]), pt))]_vars

\* The members of a sequence of sequences, one after another.
RECURSIVE Flat(_)
Flat(ss) == IF ss = <<>> THEN <<>> ELSE Head(ss) \o Flat(Tail(ss))

\* s is a followed by b, element by element.
IsAppend(s, a, b) ==
    /\ Len(s) = Len(a) + Len(b)
    /\ \A i \in DOMAIN a : s[i] = a[i]
    /\ \A j \in DOMAIN b : s[Len(a) + j] = b[j]

\* C8: D + E is a new Diagram whose sequence is D's followed by E's, and
\* neither operand changes; empty() is an identity on both sides; + is
\* associative; concat(ds) is the members of ds appended left to right, and
\* concat of an empty sequence has zero primitives.
C8_ConcatMonoid ==
    [][/\ lastOp'.name = "__add__"
          => LET d == lastOp'.d
                 e == lastOp'.e
                 new == diagrams'[lastOp'.new]
             IN  /\ lastOp'.new \notin DiagramIds
                 /\ IsAppend(new, diagrams[d], diagrams[e])
                 /\ diagrams'[d] = diagrams[d]
                 /\ diagrams'[e] = diagrams[e]
                 /\ diagrams[d] = DiagramEmpty => new = diagrams[e]
                 /\ diagrams[e] = DiagramEmpty => new = diagrams[d]
                 /\ \A c \in DiagramIds :
                      DiagramAdd(new, diagrams[c])
                        = DiagramAdd(diagrams[d], DiagramAdd(diagrams[e], diagrams[c]))
       /\ lastOp'.name = "concat"
          => LET ds == lastOp'.ds
                 new == diagrams'[lastOp'.new]
             IN  /\ new = Flat([i \in DOMAIN ds |-> diagrams[ds[i]]])
                 /\ ds = <<>> => Len(new) = 0
                 /\ \A i \in DOMAIN ds : diagrams'[ds[i]] = diagrams[ds[i]]]_vars

\* D + E ran on two non-empty Diagrams with different sequences.
C8_Witness ==
    /\ lastOp.name = "__add__"
    /\ diagrams[lastOp.d] # DiagramEmpty
    /\ diagrams[lastOp.e] # DiagramEmpty
    /\ diagrams[lastOp.d] # diagrams[lastOp.e]
    /\ diagrams[lastOp.new] # diagrams[lastOp.e] \o diagrams[lastOp.d]

\* ------------------------------------------------------ cairo.Context
\* The graphics state that save() pushes and restore() pops.
GState(c) == [ctm |-> c.ctm, source |-> c.source, line_width |-> c.line_width]

\* cairo's default line width, 2.0, in hundredths.
CairoLineWidth == 200

\* cairo.Context(surface): identity CTM, opaque black source, no path.
ContextNew ==
    [ctm |-> MatrixNew, source |-> Tuple(<<0, 0, 0>>),
     line_width |-> CairoLineWidth, path |-> <<>>, stack |-> <<>>]

\* ctx.scale(sx, sy): user space is scaled before the existing CTM applies.
ContextScale(c, sx, sy) ==
    [c EXCEPT !.ctm = MatrixMultiply(Matrix(sx, 0, 0, sy, 0, 0), @)]

\* ctx.save()
ContextSave(c) == [c EXCEPT !.stack = Append(@, GState(c))]

\* ctx.restore(): the newest saved state is popped; the path is not part of it.
ContextRestore(c) ==
    LET g == c.stack[Len(c.stack)]
    IN  [c EXCEPT !.ctm = g.ctm, !.source = g.source,
                  !.line_width = g.line_width,
                  !.stack = SubSeq(@, 1, Len(@) - 1)]

\* ctx.transform(m): m applies to user space before the existing CTM.
ContextTransform(c, m) == [c EXCEPT !.ctm = MatrixMultiply(m, @)]

\* ctx.arc / ctx.rectangle: the geometry joins the path under the CTM in
\* effect at the call.
ContextAddPath(c, geom) == [c EXCEPT !.path = Append(@, [geom |-> geom, ctm |-> c.ctm])]

\* ctx.set_source_rgb(r, g, b)
ContextSetSourceRgb(c, rgb) == [c EXCEPT !.source = Tuple(rgb)]

\* ctx.set_line_width(w)
ContextSetLineWidth(c, w) == [c EXCEPT !.line_width = w]

\* What ctx.fill_preserve() and ctx.stroke() put on the surface.
FillPaint(c) == [paint |-> "fill", path |-> c.path, source |-> c.source]

StrokePaint(c) ==
    [paint |-> "stroke", path |-> c.path, source |-> c.source,
     line_width |-> c.line_width, ctm |-> c.ctm]

\* ctx.stroke() consumes the path; ctx.fill_preserve() keeps it.
ContextClearPath(c) == [c EXCEPT !.path = <<>>]

\* The device-space point of a path element's local point.
DevicePoint(elem, pt) == Apply(elem.ctm, pt)

\* ------------------------------------------------------ render
WIDTH == 512

HEIGHT == 512

\* Python truth value of a None-or-tuple value.
Truthy(v) == v.ty = "tuple" /\ Len(v.items) > 0

\* A test that takes a colour of all zeros for no colour.
FillRequestedNonZero(self) ==
    /\ self.fill_color.ty = "tuple"
    /\ \E i \in DOMAIN self.fill_color.items : self.fill_color.items[i] # 0

\* Primitive.render: if self.fill_color
FillRequested(self) == Truthy(self.fill_color)

\* Circle.render_shape: the arguments of ctx.arc; 2 * math.pi is 4 quarter turns.
CircleRenderShape(self) ==
    [call |-> "arc",
     args |-> <<self.center[1], self.center[2], self.radius, 0, 4>>]

\* Rectangle.render_shape: the arguments of ctx.rectangle.
RectangleRenderShape(self) ==
    LET left == self.center[1] - self.width \div 2
        top == self.center[2] - self.height \div 2
    IN  [call |-> "rectangle", args |-> <<left, top, self.width, self.height>>]

\* self.render_shape(ctx): dispatch on the variant.
RenderShape(self) ==
    IF self.kind = "Circle" THEN CircleRenderShape(self)
    ELSE RectangleRenderShape(self)

\* A render that first moves the origin to the middle of the surface.
DiagramRenderBaseCentred(c) ==
    ContextScale([c EXCEPT !.ctm = MatrixMultiply(
                      Matrix(1, 0, 0, 1, WIDTH \div 2, HEIGHT \div 2), @)],
                 WIDTH, HEIGHT)

\* Diagram.render: ctx.scale(WIDTH, HEIGHT) on the new context.

DiagramRenderBase(c) == ContextScale(c, WIDTH, HEIGHT)

\* A loop that visits the shapes last to first.
NextShapeReversed(shapes, i) == shapes[Len(shapes) + 1 - i]

\* Diagram.render: for shape in self.shapes, the i-th shape visited.
NextShape(shapes, i) == shapes[i]

\* ------------------------------------------------------ SpecR
\* Diagram.render of one Diagram, one source line at a time.  The Diagram
\* and its Primitives are built by the operations above before render runs.
\* A method call on a Primitive, as data.
MRotate(k) == [m |-> "rotate", theta |-> k]

MTranslate(dx, dy) == [m |-> "translate", dx |-> dx, dy |-> dy]

MFill(c) == [m |-> "set_fill_color", color |-> c]

MStroke(c) == [m |-> "set_stroke_color", color |-> c]

MWidth(w) == [m |-> "set_stroke_width", width |-> w]

\* The chains of method calls a rendered Primitive was configured with.
RenderScripts ==
    { <<>>,
      <<MFill(RGB(255, 0, 0))>>,
      <<MFill(RGB(0, 0, 0))>>,
      <<MRotate(1), MTranslate(1, 0)>>,
      <<MFill(RGB(0, 0, 255)), MStroke(RGB(255, 0, 0)), MWidth(5), MTranslate(0, 2)>> }

FreshPrims ==
    {Circle(r) : r \in Radii} \cup {Rectangle(hw[1], hw[2]) : hw \in RectSizes}

\* prim after the chained calls of script.
RECURSIVE RunScript(_, _)
RunScript(prim, script) ==
    IF script = <<>> THEN prim
    ELSE LET c == Head(script)
             next ==
               CASE c.m = "rotate"           -> PrimitiveRotate(prim, c.theta)
                 [] c.m = "translate"        -> PrimitiveTranslate(prim, c.dx, c.dy)
                 [] c.m = "set_fill_color"   -> PrimitiveSetFillColor(prim, c.color)
                 [] c.m = "set_stroke_color" -> PrimitiveSetStrokeColor(prim, c.color)
                 [] c.m = "set_stroke_width" -> PrimitiveSetStrokeWidth(prim, c.width)
         IN  RunScript(next, Tail(script))

\* The rotate/translate calls of a script, for the history.
RECURSIVE ScriptCalls(_)
ScriptCalls(script) ==
    IF script = <<>> THEN <<>>
    ELSE LET c == Head(script)
             h == CASE c.m = "rotate" -> <<[op |-> "rotate", theta |-> c.theta]>>
                    [] c.m = "translate" ->
                         <<[op |-> "translate", dx |-> c.dx, dy |-> c.dy]>>
                    [] OTHER -> <<>>
         IN  h \o ScriptCalls(Tail(script))

\* The Diagram holds its n Primitives in construction order, as
\* Diagram.concat or add_primitive builds it.
InitR ==
    /\ \E n \in 0..MaxShapes :
         \E fresh \in [1..n -> FreshPrims], scripts \in [1..n -> RenderScripts] :
            /\ prims = [i \in 1..n |-> RunScript(fresh[i], scripts[i])]
            /\ calls = [i \in 1..n |-> ScriptCalls(scripts[i])]
            /\ diagrams = << [i \in 1..n |-> i] >>
    /\ lastOp = NoOp
    /\ nops = 0
    /\ tstack = <<>>
    /\ called = NoTransform
    /\ result = None
    /\ nctor = 0
    /\ RenderIdle

\* The Diagram being rendered, and the Primitive Primitive.render runs on.
Rendered == diagrams[1]

Self == prims[NextShape(Rendered, ri)]

Logged(call, args) == [call |-> call, args |-> args, prim |-> NextShape(Rendered, ri)]

RenderFrame == UNCHANGED <<hvars, tvars>>

\* Diagram.render: the surface and its context are created.
RenderStart ==
    /\ pc = "idle"
    /\ ctx' = ContextNew
    /\ pc' = "scale"
    /\ UNCHANGED <<ri, matrix, log, surface, written>>
    /\ RenderFrame

\* ctx.scale(WIDTH, HEIGHT)
RenderScale ==
    /\ pc = "scale"
    /\ ctx' = DiagramRenderBase(ctx)
    /\ pc' = "loop"
    /\ UNCHANGED <<ri, matrix, log, surface, written>>
    /\ RenderFrame

\* for shape in self.shapes: shape.render(ctx)
RenderLoop ==
    /\ pc = "loop"
    /\ ri < Len(Rendered)
    /\ ri' = ri + 1
    /\ pc' = "resolve"
    /\ UNCHANGED <<matrix, ctx, log, surface, written>>
    /\ RenderFrame

\* surface.write_to_png(path), once the loop is over
RenderWrite ==
    /\ pc = "loop"
    /\ ri = Len(Rendered)
    /\ written' = TRUE
    /\ pc' = "done"
    /\ UNCHANGED <<ri, matrix, ctx, log, surface>>
    /\ RenderFrame

\* Primitive.render: matrix = self.transform()
PrimResolve ==
    /\ pc = "resolve"
    /\ matrix' = Call(Self.transform)
    /\ pc' = "save"
    /\ UNCHANGED <<ri, ctx, log, surface, written>>
    /\ RenderFrame

\* ctx.save()
PrimSave ==
    /\ pc = "save"
    /\ ctx' = ContextSave(ctx)
    /\ log' = Append(log, Logged("save", <<>>))
    /\ pc' = "transform"
    /\ UNCHANGED <<ri, matrix, surface, written>>
    /\ RenderFrame

\* ctx.transform(matrix)
PrimTransform ==
    /\ pc = "transform"
    /\ ctx' = ContextTransform(ctx, matrix)
    /\ log' = Append(log, Logged("transform", <<matrix>>))
    /\ pc' = "render_shape"
    /\ UNCHANGED <<ri, matrix, surface, written>>
    /\ RenderFrame

\* self.render_shape(ctx)
PrimRenderShape ==
    /\ pc = "render_shape"
    /\ LET g == RenderShape(Self)
       IN  /\ ctx' = ContextAddPath(ctx, g)
           /\ log' = Append(log, Logged(g.call, g.args))
    /\ pc' = "if_fill"
    /\ UNCHANGED <<ri, matrix, surface, written>>
    /\ RenderFrame

\* if self.fill_color:
PrimIfFill ==
    /\ pc = "if_fill"
    /\ pc' = IF FillRequested(Self) THEN "fill_source" ELSE "stroke_source"
    /\ UNCHANGED <<ri, matrix, ctx, log, surface, written>>
    /\ RenderFrame

\* ctx.set_source_rgb(*self.fill_color)
PrimFillSource ==
    /\ pc = "fill_source"
    /\ ctx' = ContextSetSourceRgb(ctx, Self.fill_color.items)
    /\ log' = Append(log, Logged("set_source_rgb", Self.fill_color.items))
    /\ pc' = "fill_preserve"
    /\ UNCHANGED <<ri, matrix, surface, written>>
    /\ RenderFrame

\* ctx.fill_preserve()
PrimFillPreserve ==
    /\ pc = "fill_preserve"
    /\ surface' = Append(surface, FillPaint(ctx))
    /\ log' = Append(log, Logged("fill_preserve", <<>>))
    /\ pc' = "stroke_source"
    /\ UNCHANGED <<ri, matrix, ctx, written>>
    /\ RenderFrame

\* ctx.set_source_rgb(*self.stroke_color)
PrimStrokeSource ==
    /\ pc = "stroke_source"
    /\ ctx' = ContextSetSourceRgb(ctx, Self.stroke_color.items)
    /\ log' = Append(log, Logged("set_source_rgb", Self.stroke_color.items))
    /\ pc' = "line_width"
    /\ UNCHANGED <<ri, matrix, surface, written>>
    /\ RenderFrame

\* ctx.set_line_width(self.stroke_width)
PrimLineWidth ==
    /\ pc = "line_width"
    /\ ctx' = ContextSetLineWidth(ctx, Self.stroke_width)
    /\ log' = Append(log, Logged("set_line_width", <<Self.stroke_width>>))
    /\ pc' = "stroke"
    /\ UNCHANGED <<ri, matrix, surface, written>>
    /\ RenderFrame

\* ctx.stroke()
PrimStroke ==
    /\ pc = "stroke"
    /\ surface' = Append(surface, StrokePaint(ctx))
    /\ ctx' = ContextClearPath(ctx)
    /\ log' = Append(log, Logged("stroke", <<>>))
    /\ pc' = "restore"
    /\ UNCHANGED <<ri, matrix, written>>
    /\ RenderFrame

\* A render that leaves out ctx.restore().
PrimRestoreSkipped ==
    /\ pc = "restore"
    /\ log' = Append(log, Logged("restore", <<>>))
    /\ pc' = "loop"
    /\ UNCHANGED <<ri, matrix, ctx, surface, written>>
    /\ RenderFrame

\* ctx.restore()
PrimRestore ==
    /\ pc = "restore"
    /\ ctx' = ContextRestore(ctx)
    /\ log' = Append(log, Logged("restore", <<>>))
    /\ pc' = "loop"
    /\ UNCHANGED <<ri, matrix, surface, written>>
    /\ RenderFrame

NextR ==
    \/ RenderStart
    \/ RenderScale
    \/ RenderLoop
    \/ RenderWrite
    \/ PrimResolve
    \/ PrimSave
    \/ PrimTransform
    \/ PrimRenderShape
    \/ PrimIfFill
    \/ PrimFillSource
    \/ PrimFillPreserve
    \/ PrimStrokeSource
    \/ PrimLineWidth
    \/ PrimStroke
    \/ PrimRestore

SpecR == InitR /\ [][NextR]_vars

\* ------------------------------------------------------ claims on SpecR
\* The context calls Primitive.render made for the Primitive p, in order.
CallsOf(p) ==
    LET own == SelectSeq(log, LAMBDA e : e.prim = p)
    IN  [i \in DOMAIN own |-> [call |-> own[i].call, args |-> own[i].args]]

Entry(call, args) == [call |-> call, args |-> args]

\* The geometry call of a variant, written out from its fields.
GeometryOf(prim) ==
    IF prim.kind = "Circle"
    THEN Entry("arc", <<0, 0, prim.radius, 0, 4>>)
    ELSE Entry("rectangle",
               <<-(prim.width \div 2), -(prim.height \div 2), prim.width, prim.height>>)

\* The calls C3 lists, for one primitive: the fill pair is present exactly
\* when fill_color is set, whatever the colour.
ExpectedCalls(prim) ==
    <<Entry("save", <<>>), Entry("transform", <<Resolved(prim)>>), GeometryOf(prim)>>
    \o (IF prim.fill_color # None
        THEN <<Entry("set_source_rgb", prim.fill_color.items),
               Entry("fill_preserve", <<>>)>>
        ELSE <<>>)
    \o <<Entry("set_source_rgb", prim.stroke_color.items),
         Entry("set_line_width", <<prim.stroke_width>>),
         Entry("stroke", <<>>),
         Entry("restore", <<>>)>>

IsPrefix(a, b) == Len(a) <= Len(b) /\ SubSeq(b, 1, Len(a)) = a

\* The positions of self.shapes whose render has returned.
Finished == IF pc \in {"loop", "done"} THEN 1..ri ELSE 1..(ri - 1)

\* C3: Primitive.render issues save, transform(resolved matrix), the
\* geometry call, then, if and only if fill_color is set (black included),
\* set-source(fill_color) and fill-preserve, then always set-source
\* (stroke_color), set-line-width(stroke_width), stroke, and restore: at
\* every moment the calls made for a primitive are a prefix of that list, and
\* the whole list once its render has returned.
C3_RenderCallOrder ==
    \A i \in DOMAIN Rendered :
        LET p == Rendered[i]
        IN  /\ IsPrefix(CallsOf(p), ExpectedCalls(prims[p]))
            /\ i \in Finished => CallsOf(p) = ExpectedCalls(prims[p])

\* A primitive whose fill colour was set to black was rendered to the end,
\* and so was one with no fill colour.
C3_Witness ==
    /\ pc = "done"
    /\ \E p \in PrimIds :
         /\ prims[p].fill_color = Tuple(<<0, 0, 0>>)
         /\ \E k \in DOMAIN log : log[k].prim = p /\ log[k].call = "fill_preserve"
    /\ \E p \in PrimIds :
         /\ prims[p].fill_color = None
         /\ \E k \in DOMAIN log : log[k].prim = p /\ log[k].call = "stroke"

\* The position in self.shapes of the primitive a logged call was made for.
PositionOf(p) == CHOOSE i \in DOMAIN Rendered : Rendered[i] = p

\* The fills on the surface, in paint order.
Fills == SelectSeq(surface, LAMBDA s : s.paint = "fill")

\* The positions of self.shapes whose primitive has a fill colour.
FilledPositions == {i \in DOMAIN Rendered : prims[Rendered[i]].fill_color # None}

\* C6: the primitives are rendered one at a time in sequence order, each
\* save..restore block finishing before the next starts; so every call for a
\* later primitive comes after every call for an earlier one, and once
\* render is done the fill painted last (the colour left where the fills
\* overlap) is that of the last primitive in the sequence that has a fill.
C6_PaintOrder ==
    /\ \A j \in DOMAIN log, k \in DOMAIN log :
         j < k => PositionOf(log[j].prim) <= PositionOf(log[k].prim)
    /\ \A k \in DOMAIN log :
         (k > 1 /\ log[k].call = "save") => log[k - 1].call = "restore"
    /\ (pc = "done" /\ FilledPositions # {})
         => LET last == CHOOSE i \in FilledPositions :
                            \A j \in FilledPositions : j <= i
            IN  /\ Len(Fills) = Cardinality(FilledPositions)
                /\ Fills[Len(Fills)].source = prims[Rendered[last]].fill_color

\* A.overlay(B) with A filled red and B filled black was rendered.
C6_Witness ==
    /\ pc = "done"
    /\ Len(Rendered) = 2
    /\ prims[Rendered[1]].fill_color = Tuple(<<1, 0, 0>>)
    /\ prims[Rendered[2]].fill_color = Tuple(<<0, 0, 0>>)
    /\ Fills[Len(Fills)].source = Tuple(<<0, 0, 0>>)

\* The context as Diagram.render hands it to the first primitive.
BaseContext == DiagramRenderBase(ContextNew)

\* C7: when a primitive's render begins, the context's transform, paint
\* colour and line width are those Diagram.render established, no saved
\* state is pending and no path is left over, whatever was rendered before.
C7_NoLeak ==
    pc = "resolve" => ctx = BaseContext

\* The render of a second primitive begins after a first one that set a
\* transform, a fill colour, a stroke colour and a stroke width.
C7_Witness ==
    /\ pc = "resolve"
    /\ ri = 2
    /\ prims[Rendered[1]].transform # Identity
    /\ prims[Rendered[1]].fill_color # None
    /\ prims[Rendered[1]].stroke_color # Tuple(<<0, 0, 0>>)
    /\ prims[Rendered[1]].stroke_width # DefaultStrokeWidth

\* A Circle on which no rotate or translate was called has just emitted its
\* arc.
UntransformedCircleDrawn ==
    /\ pc = "if_fill"
    /\ Self.kind = "Circle"
    /\ Self.transform = Identity

\* The device-space centre of the arc just emitted.
ArcCentre == DevicePoint(ctx.path[Len(ctx.path)], Self.center)

\* C10 (as the spec states it): such a Circle is drawn centred at the centre
\* of the surface, (256, 256).
C10_CircleAtSurfaceCentre ==
    UntransformedCircleDrawn => ArcCentre = <<WIDTH \div 2, HEIGHT \div 2>>

\* C10 (amended): such a Circle is drawn centred at device point (0, 0), the
\* top-left corner of the surface.
C10_CircleAtSurfaceOrigin ==
    UntransformedCircleDrawn => ArcCentre = <<0, 0>>

\* An untransformed Circle emitted its arc under the base scale.
C10_Witness ==
    /\ UntransformedCircleDrawn
    /\ ctx.ctm = Matrix(WIDTH, 0, 0, HEIGHT, 0, 0)

====
